---- MODULE Spec2Model ----
(***************************************************************************)
(* ICC Terminal: the paper trading ledger (services/paperTradingService)   *)
(* and the agent scheduler (App.tsx runAgentCycle, the agent loop effect   *)
(* and the AnalysisView auto-execution effect).                            *)
(*                                                                         *)
(* JavaScript numbers are modelled as tagged values: k = "num" carries an  *)
(* integer, k = "nan" is NaN and k = "undef" is a field the Oracle left    *)
(* out.  Arithmetic on nan/undef gives nan, every comparison with them is  *)
(* false, as in JavaScript.  Prices are integers in price steps.           *)
(***************************************************************************)
EXTENDS Integers, Sequences, FiniteSets, TLC

\* ------------------------------------------------------------------------
\* Bounds of the exploration
\* ------------------------------------------------------------------------
MaxOpens == 2
MaxTicks == 2
MaxListeners == 2
MaxMove == 4
MaxStarts == 2
MaxInFlight == 2
MaxToggles == 2
MaxWaits == 1
PacedStarts == 2
PacedToggles == 3
LogStarts == 18
LogToggles == 36
BackoffStarts == 4
BackoffToggles == 3

\* ------------------------------------------------------------------------
\* Program constants
\* ------------------------------------------------------------------------
INITIAL_BALANCE == 100000
ContractSize == 100000
VolatilityDivisor == 10000
MaxLogs == 50
MinCandles == 3
RatioScale == 100000
Threshold == 15
\* the significand of a JavaScript number (IEEE 754 binary64) has 53 bits
Precision == 53
\* quotient bits kept below the significand before rounding; with the
\* remainder as sticky bit any number above 20 gives the same result
GuardBits == 80
MinConfidence == 75

\* ------------------------------------------------------------------------
\* JavaScript numbers
\* ------------------------------------------------------------------------
N(i) == [k |-> "num", v |-> i]
NaN == [k |-> "nan", v |-> 0]
Undefined == [k |-> "undef", v |-> 0]

IsNum(a) == a.k = "num"

Add(a, b) == IF IsNum(a) /\ IsNum(b) THEN N(a.v + b.v) ELSE NaN
Sub(a, b) == IF IsNum(a) /\ IsNum(b) THEN N(a.v - b.v) ELSE NaN
Mul(a, b) == IF IsNum(a) /\ IsNum(b) THEN N(a.v * b.v) ELSE NaN
Leq(a, b) == IsNum(a) /\ IsNum(b) /\ a.v <= b.v
Geq(a, b) == IsNum(a) /\ IsNum(b) /\ a.v >= b.v
\* a === b on numbers: NaN equals nothing, itself included
Eq(a, b) == IsNum(a) /\ IsNum(b) /\ a.v = b.v

\* ------------------------------------------------------------------------
\* Inputs of the exploration
\* ------------------------------------------------------------------------
\* Math.floor(Math.random() * 900000) + 100000: two of the possible tickets
Tickets == {100000, 100001}

\* the chart's currentPrice while the agent scans
LivePrice == N(40000)
\* the livePrice state of App: 0 until the chart reports a price
LivePrices == {N(0), LivePrice}

Candle(open, high, low, close) == [open |-> open, high |-> high, low |-> low, close |-> close]
FlatCandle == Candle(40000, 40000, 40000, 40000)
EdgeCandle == Candle(40000, 40006, 40000, 40003)
WideCandle == Candle(40000, 40008, 40000, 40004)
\* a candle of the given range
RangeCandle(range) == Candle(40000, 40000 + range, 40000, 40000 + range \div 2)

\* candleBufferRef.current.slice(-5) at the time of a snapshot
\* for the 1m capture
CandleFeeds ==
    { <<>>,
      <<FlatCandle, FlatCandle>>,
      <<FlatCandle, FlatCandle, FlatCandle>>,
      <<EdgeCandle, EdgeCandle, EdgeCandle>>,
      <<EdgeCandle, EdgeCandle, RangeCandle(5)>>,
      <<EdgeCandle, EdgeCandle, RangeCandle(7)>>,
      <<RangeCandle(2), RangeCandle(11), RangeCandle(5)>>,
      <<WideCandle, WideCandle, FlatCandle, WideCandle, WideCandle>> }
\* for the 4h and 15m captures, whose candles only reach the prompt text
TrendFeeds == { <<WideCandle, WideCandle, FlatCandle, WideCandle, WideCandle>> }

Execution(action, confidence, entry, sl, tp1, lots) ==
    [action |-> action, confidenceScore |-> confidence, entryPrice |-> entry,
     stopLoss |-> sl, takeProfit1 |-> tp1, takeProfit2 |-> Undefined,
     lotSizeCalculation |-> lots]

\* parsed.execution as the Oracle may return it: action and confidenceScore
\* are required by the schema, every other field may be missing
OracleExecutions ==
    { [Execution("BUY", 80, N(40001), N(39998), N(40002), N(1))
          EXCEPT !.takeProfit2 = N(40004)],
      Execution("BUY", 40, Undefined, N(39998), N(40002), N(1)),
      Execution("SELL", 75, Undefined, Undefined, Undefined, Undefined),
      Execution("WAIT", 99, Undefined, Undefined, Undefined, Undefined) }

JsonResponse(execution) ==
    [type |-> "json", execution |-> execution, has429 |-> FALSE, resourceExhausted |-> FALSE]
ErrorResponse(type, has429, resourceExhausted) ==
    [type |-> type, execution |-> Execution("WAIT", 0, Undefined, Undefined, Undefined, Undefined),
     has429 |-> has429, resourceExhausted |-> resourceExhausted]

\* what ai.models.generateContent yields: a JSON text, an empty text, a
\* thrown API error, or a text that JSON.parse rejects; has429 says whether
\* the text of the error that results contains "429" (the SyntaxError of
\* JSON.parse quotes the rejected text or its position)
RawResponses ==
    { JsonResponse(e) : e \in OracleExecutions }
      \cup { ErrorResponse("empty", FALSE, FALSE),
             ErrorResponse("apiError", TRUE, FALSE),
             ErrorResponse("apiError", FALSE, TRUE),
             ErrorResponse("apiError", FALSE, FALSE),
             ErrorResponse("unparsable", TRUE, FALSE),
             ErrorResponse("unparsable", FALSE, FALSE) }

\* executions handed to executePaperTrade directly
LedgerExecutions ==
    { Execution("BUY", 80, N(40000), N(39998), N(40002), N(1)),
      Execution("SELL", 80, N(40000), N(40002), N(39998), N(2)),
      Execution("BUY", 80, N(40000), Undefined, Undefined, Undefined),
      Execution("SELL", 80, N(0), N(0), N(0), N(1)),
      Execution("BUY", 80, N(40000), N(40000), N(40000), N(1)),
      Execution("WAIT", 80, N(40000), N(39998), N(40002), N(1)) }

ListenerIds == {"view", "panel"}

\* ------------------------------------------------------------------------
\* Sequence helpers (Array.prototype.filter / findIndex / reduce)
\* ------------------------------------------------------------------------
\* positions.filter(p => p.status === status)
RECURSIVE FilterStatus(_, _)
FilterStatus(s, status) ==
    IF s = <<>> THEN <<>>
    ELSE IF Head(s).status = status
         THEN <<Head(s)>> \o FilterStatus(Tail(s), status)
         ELSE FilterStatus(Tail(s), status)

RemoveAt(s, i) == SubSeq(s, 1, i - 1) \o SubSeq(s, i + 1, Len(s))

\* findIndex: the first index whose element has this id, 0 when there is none
FindIndex(positions, id) ==
    IF \E i \in 1..Len(positions) : positions[i].id = id
    THEN CHOOSE i \in 1..Len(positions) :
            /\ positions[i].id = id
            /\ \A j \in 1..(i - 1) : positions[j].id # id
    ELSE 0

\* positions.reduce((sum, p) => sum + p.pnl, 0)
RECURSIVE SumPnl(_)
SumPnl(positions) ==
    IF positions = <<>> THEN N(0)
    ELSE Add(SumPnl(SubSeq(positions, 1, Len(positions) - 1)),
             positions[Len(positions)].pnl)

VARIABLES
    \* paperTradingService: the account, the listener array, the unsubscribe
    \* closures handed out, the deliveries of the last ledger call, the next
    \* fresh position id, the ticks taken, and every (id, pnl) folded into
    \* balance so far
    accountState, listeners, unsubs, delivered, nextId, tickCount, closedLog,
    \* App: React state and the agentTimerRef / browser timers
    agentStatus, isActive, agentLogs, timers, cycles, analysisResult,
    \* how many cycles were started, toggles clicked and retry waits taken
    starts, toggles, waits,
    \* AnalysisView: bridgeStatus and its pending 500 ms timeouts
    bridgeStatus, pendingBridge,
    \* TradingChart: activeTimeframe and the pending delayed view resets
    chartTimeframe, pendingResets,
    \* bridgeService: the calls waiting for their 2000 ms timeout, the
    \* resolved promises, and the requests sent to the webhook
    webhookPending, webhookReplies, webhookSent

ledgerVars == <<accountState, listeners, unsubs, delivered, nextId, tickCount, closedLog>>
agentVars == <<agentStatus, isActive, agentLogs, timers, cycles, analysisResult, starts, toggles, waits>>
viewVars == <<bridgeStatus, pendingBridge>>
chartVars == <<chartTimeframe, pendingResets>>
webhookVars == <<webhookPending, webhookReplies, webhookSent>>
vars == <<ledgerVars, agentVars, viewVars, chartVars, webhookVars>>

\* ------------------------------------------------------------------------
\* Paper trading ledger
\* ------------------------------------------------------------------------
updateEquity(acc) ==
    LET floatingPnL == SumPnl(acc.positions)
        equity == Add(acc.balance, floatingPnL)
    IN [acc EXCEPT !.equity = equity,
                   !.freeMargin = Sub(equity, acc.marginUsed)]

\* listeners.forEach(l => l(accountState))
notifyListeners(ls, acc) == [i \in 1..Len(ls) |-> [listener |-> ls[i], state |-> acc]]

NewPosition(execution, id, ticket) ==
    [id |-> id, ticket |-> ticket, type |-> execution.action,
     entryPrice |-> execution.entryPrice,
     currentPrice |-> execution.entryPrice,
     sl |-> execution.stopLoss,
     tp |-> execution.takeProfit1,
     lots |-> execution.lotSizeCalculation,
     pnl |-> N(0), status |-> "OPEN", closeReason |-> "NONE"]

\* the account after executePaperTrade, for an action other than WAIT
executePaperTradeAcc(acc, execution, id, ticket) ==
    LET newPosition == NewPosition(execution, id, ticket)
        margin == Mul(newPosition.entryPrice, newPosition.lots)
    IN updateEquity([acc EXCEPT !.positions = <<newPosition>> \o @,
                                !.marginUsed = Add(@, margin)])

\* realizes the pnl but leaves the position in the open set
closePositionAccKeeps(acc, id) ==
    LET posIndex == FindIndex(acc.positions, id)
    IN IF posIndex = 0 THEN acc
       ELSE updateEquity([acc EXCEPT
                !.balance = Add(@, acc.positions[posIndex].pnl)])

\* releases the margin of the closed position as well
closePositionAccReleasesMargin(acc, id) ==
    LET posIndex == FindIndex(acc.positions, id)
    IN IF posIndex = 0 THEN acc
       ELSE updateEquity([acc EXCEPT
                !.balance = Add(@, acc.positions[posIndex].pnl),
                !.marginUsed = Sub(@, Mul(acc.positions[posIndex].entryPrice,
                                          acc.positions[posIndex].lots)),
                !.positions = RemoveAt(@, posIndex)])

\* the account after closePosition; unchanged when the id is not open
closePositionAcc(acc, id) ==
    LET posIndex == FindIndex(acc.positions, id)
    IN IF posIndex = 0 THEN acc
       ELSE updateEquity([acc EXCEPT
                !.balance = Add(@, acc.positions[posIndex].pnl),
                !.positions = RemoveAt(@, posIndex)])

\* Math.random() - 0.5 scaled by entryPrice * 0.0001: the half-open range
\* [-volatility/2, volatility/2) in whole price steps
MoveSet(entryPrice) ==
    IF IsNum(entryPrice)
    THEN IF entryPrice.v = 0 THEN {N(0)}
         ELSE {N(m) : m \in {x \in -MaxMove..MaxMove :
                                /\ 2 * x * VolatilityDivisor >= -entryPrice.v
                                /\ 2 * x * VolatilityDivisor < entryPrice.v}}
    ELSE {NaN}

\* one random move per position, in array order
RECURSIVE MoveSeqs(_)
MoveSeqs(positions) ==
    IF positions = <<>> THEN {<<>>}
    ELSE {<<m>> \o rest : m \in MoveSet(Head(positions).entryPrice),
                          rest \in MoveSeqs(Tail(positions))}

\* the two tests of each side swapped: take-profit is looked at first
tickPositionProfitFirst(pos, move) ==
    LET newPrice == Add(pos.currentPrice, move)
        priceDiff == Sub(newPrice, pos.entryPrice)
        direction == IF pos.type = "BUY" THEN N(1) ELSE N(-1)
        pnl == Mul(Mul(Mul(priceDiff, direction), pos.lots), N(ContractSize))
        marked == [pos EXCEPT !.currentPrice = newPrice, !.pnl = pnl]
        closedAs(reason) == [marked EXCEPT !.status = "CLOSED", !.closeReason = reason]
    IN IF pos.type = "BUY"
       THEN IF Geq(newPrice, pos.tp) THEN closedAs("TP")
            ELSE IF Leq(newPrice, pos.sl) THEN closedAs("SL")
            ELSE marked
       ELSE IF Leq(newPrice, pos.tp) THEN closedAs("TP")
            ELSE IF Geq(newPrice, pos.sl) THEN closedAs("SL")
            ELSE marked

\* a stop or target of 0 taken for "not set"
tickPositionSkipsZeroStops(pos, move) ==
    LET newPrice == Add(pos.currentPrice, move)
        priceDiff == Sub(newPrice, pos.entryPrice)
        direction == IF pos.type = "BUY" THEN N(1) ELSE N(-1)
        pnl == Mul(Mul(Mul(priceDiff, direction), pos.lots), N(ContractSize))
        marked == [pos EXCEPT !.currentPrice = newPrice, !.pnl = pnl]
        closedAs(reason) == [marked EXCEPT !.status = "CLOSED", !.closeReason = reason]
        set(level) == IsNum(level) /\ level.v # 0
    IN IF pos.type = "BUY"
       THEN IF set(pos.sl) /\ Leq(newPrice, pos.sl) THEN closedAs("SL")
            ELSE IF set(pos.tp) /\ Geq(newPrice, pos.tp) THEN closedAs("TP")
            ELSE marked
       ELSE IF set(pos.sl) /\ Geq(newPrice, pos.sl) THEN closedAs("SL")
            ELSE IF set(pos.tp) /\ Leq(newPrice, pos.tp) THEN closedAs("TP")
            ELSE marked

\* one position through the map callback of tickMarket
tickPosition(pos, move) ==
    LET newPrice == Add(pos.currentPrice, move)
        priceDiff == Sub(newPrice, pos.entryPrice)
        direction == IF pos.type = "BUY" THEN N(1) ELSE N(-1)
        pnl == Mul(Mul(Mul(priceDiff, direction), pos.lots), N(ContractSize))
        marked == [pos EXCEPT !.currentPrice = newPrice, !.pnl = pnl]
        closedAs(reason) == [marked EXCEPT !.status = "CLOSED", !.closeReason = reason]
    IN IF pos.type = "BUY"
       THEN IF Leq(newPrice, pos.sl) THEN closedAs("SL")
            ELSE IF Geq(newPrice, pos.tp) THEN closedAs("TP")
            ELSE marked
       ELSE IF Geq(newPrice, pos.sl) THEN closedAs("SL")
            ELSE IF Leq(newPrice, pos.tp) THEN closedAs("TP")
            ELSE marked

RECURSIVE FoldBalance(_, _)
FoldBalance(balance, closed) ==
    IF closed = <<>> THEN balance
    ELSE FoldBalance(Add(balance, Head(closed).pnl), Tail(closed))

\* the positions after the map of tickMarket, for one move per position
tickMapped(positions, moves) ==
    [i \in 1..Len(positions) |-> tickPosition(positions[i], moves[i])]

\* folds the closed positions into balance but never filters them out
tickMarketAccKeepsClosed(acc, moves) ==
    LET mapped == tickMapped(acc.positions, moves)
        closed == FilterStatus(mapped, "CLOSED")
    IN updateEquity([acc EXCEPT
            !.balance = FoldBalance(@, closed),
            !.positions = mapped])

\* the filter on OPEN applied before the map: a position closed by this
\* tick is folded into balance but stays in the list until the next tick
tickMarketAccFiltersFirst(acc, moves) ==
    LET mapped == tickMapped(FilterStatus(acc.positions, "OPEN"),
                             SubSeq(moves, 1, Len(FilterStatus(acc.positions, "OPEN"))))
        closed == FilterStatus(mapped, "CLOSED")
    IN updateEquity([acc EXCEPT
            !.balance = FoldBalance(@, closed),
            !.positions = mapped])

\* the account after tickMarket with at least one open position
tickMarketAcc(acc, moves) ==
    LET mapped == tickMapped(acc.positions, moves)
        closed == FilterStatus(mapped, "CLOSED")
    IN updateEquity([acc EXCEPT
            !.balance = FoldBalance(@, closed),
            !.positions = FilterStatus(mapped, "OPEN")])

ClosedEntries(closed) ==
    [i \in 1..Len(closed) |->
        [id |-> closed[i].id, pnl |-> closed[i].pnl, reason |-> closed[i].closeReason,
         position |-> closed[i]]]

\* what a listener reads through the argument it was called with, once the
\* account is acc: notifyListeners passes the module's accountState object
\* itself, and every ledger call writes to that object in place
ReadReceived(received, acc) == acc

\* what AnalysisView reads through its copy { ...state }: its own scalar
\* fields and the positions array it shares with the ledger; tickMarket
\* assigns a new array (newArray), executePaperTrade (unshift) and
\* closePosition (splice) write to the shared one
ReadViewCopy(copy, acc, newArray) ==
    [copy EXCEPT !.positions = IF newArray THEN @ ELSE acc.positions]

\* ---- ledger calls as state changes (listeners' is set by the caller) ----

\* executePaperTrade(execution, asset) with the listener array ls
\* opens a position and notifies whatever the action is
executePaperTradeAnyAction(execution, ticket, ls) ==
    /\ UNCHANGED <<tickCount, closedLog>>
    /\ accountState' = executePaperTradeAcc(accountState, execution, nextId, ticket)
    /\ nextId' = nextId + 1
    /\ delivered' = notifyListeners(ls, accountState')

executePaperTrade(execution, ticket, ls) ==
    /\ UNCHANGED <<tickCount, closedLog>>
    /\ IF execution.action = "WAIT"
       THEN /\ UNCHANGED <<accountState, nextId>>
            /\ delivered' = <<>>
       ELSE /\ accountState' = executePaperTradeAcc(accountState, execution, nextId, ticket)
            /\ nextId' = nextId + 1
            /\ delivered' = notifyListeners(ls, accountState')

\* closePosition(id)
closePosition(id) ==
    /\ accountState' = closePositionAcc(accountState, id)
    /\ IF FindIndex(accountState.positions, id) = 0
       THEN /\ delivered' = <<>>
            /\ UNCHANGED closedLog
       ELSE /\ delivered' = notifyListeners(listeners, accountState')
            /\ closedLog' = Append(closedLog,
                   [id |-> id,
                    pnl |-> accountState.positions[FindIndex(accountState.positions, id)].pnl,
                    reason |-> "MANUAL",
                    position |-> accountState.positions[FindIndex(accountState.positions, id)]])
    /\ UNCHANGED <<listeners, unsubs, nextId, tickCount>>

\* tickMarket(), the setInterval(tickMarket, 1000) callback
tickMarket ==
    /\ tickCount < MaxTicks
    /\ tickCount' = tickCount + 1
    /\ IF Len(accountState.positions) = 0
       THEN /\ UNCHANGED <<accountState, closedLog>>
            /\ delivered' = <<>>
       ELSE \E moves \in MoveSeqs(accountState.positions) :
            /\ accountState' = tickMarketAcc(accountState, moves)
            /\ closedLog' = closedLog \o ClosedEntries(
                   FilterStatus(tickMapped(accountState.positions, moves), "CLOSED"))
            /\ delivered' = notifyListeners(listeners, accountState')
    /\ UNCHANGED <<listeners, unsubs, nextId>>

\* subscribeToAccountUpdates(listener)
subscribeToAccountUpdates(l) ==
    /\ Len(listeners) < MaxListeners
    /\ listeners' = Append(listeners, l)
    /\ unsubs' = unsubs \cup {l}
    /\ delivered' = <<[listener |-> l, state |-> accountState]>>
    /\ UNCHANGED <<accountState, nextId, tickCount, closedLog>>

\* listeners.indexOf(listener), 0 when absent
IndexOf(ls, l) ==
    IF \E i \in 1..Len(ls) : ls[i] = l
    THEN CHOOSE i \in 1..Len(ls) : ls[i] = l /\ \A j \in 1..(i - 1) : ls[j] # l
    ELSE 0

\* the listener array after one call of the closure returned for l:
\* const index = listeners.indexOf(listener); if (index > -1) splice(index, 1)
unsubscribeFrom(ls, l) ==
    IF IndexOf(ls, l) > 0 THEN RemoveAt(ls, IndexOf(ls, l)) ELSE ls

\* the closure returned by subscribeToAccountUpdates(listener)
unsubscribe(l) ==
    /\ l \in unsubs
    /\ listeners' = unsubscribeFrom(listeners, l)
    /\ delivered' = <<>>
    /\ UNCHANGED <<accountState, unsubs, nextId, tickCount, closedLog>>

\* ------------------------------------------------------------------------
\* Agent scheduler (App.tsx)
\* ------------------------------------------------------------------------
LogEntry(message, type) == [message |-> message, type |-> type]

\* setAgentLogs(prev => [newLog, ...prev].slice(0, 50))
addAgentLog(logs, message, type) ==
    LET all == <<LogEntry(message, type)>> \o logs
    IN SubSeq(all, 1, IF Len(all) < MaxLogs THEN Len(all) ELSE MaxLogs)

\* ------------------------------------------------------------------------
\* JavaScript number arithmetic of isMarketActive
\* ------------------------------------------------------------------------
\* ---- IEEE 754 binary64 values >= 0: zero, or a 53-bit significand m (most
\* significant bit first, m[1] = 1) whose first bit weighs 2^e ----
Zero == [z |-> TRUE, e |-> 0, m |-> <<>>]
Zeros(k) == [i \in 1..k |-> 0]

RECURSIVE ToBits(_)
ToBits(n) == IF n = 0 THEN <<>> ELSE Append(ToBits(n \div 2), n % 2)

\* bits + 1, for bits that are not all ones
Inc(bits) ==
    LET last == CHOOSE i \in 1..Len(bits) :
                    bits[i] = 0 /\ \A j \in (i + 1)..Len(bits) : bits[j] = 1
    IN [i \in 1..Len(bits) |-> IF i < last THEN bits[i] ELSE IF i = last THEN 1 ELSE 0]

\* round to nearest, ties to even: bits[1] = 1 weighs 2^e, sticky says that
\* the exact value has more below the last of the bits
Round(bits, e, sticky) ==
    LET padded == bits \o Zeros(Precision + 1)
        keep == SubSeq(padded, 1, Precision)
        half == padded[Precision + 1] = 1
        more == sticky \/ \E i \in (Precision + 2)..Len(padded) : padded[i] = 1
        up == half /\ (more \/ keep[Precision] = 1)
    IN IF ~up THEN [z |-> FALSE, e |-> e, m |-> keep]
       ELSE IF \A i \in 1..Precision : keep[i] = 1
            THEN [z |-> FALSE, e |-> e + 1, m |-> <<1>> \o Zeros(Precision - 1)]
            ELSE [z |-> FALSE, e |-> e, m |-> Inc(keep)]

\* drop leading zeros, then round; the first bit of bits weighs 2^e
Normalize(bits, e, sticky) ==
    IF \A i \in 1..Len(bits) : bits[i] = 0 THEN Zero
    ELSE LET first == CHOOSE i \in 1..Len(bits) :
                          bits[i] = 1 /\ \A j \in 1..(i - 1) : bits[j] = 0
         IN Round(SubSeq(bits, first, Len(bits)), e - (first - 1), sticky)

\* schoolbook division of a bit string by a small integer, entered with
\* remainder r: the left half first, its remainder carried into the right
RECURSIVE LongDiv(_, _, _)
LongDiv(bits, n, r) ==
    IF bits = <<>> THEN [q |-> <<>>, r |-> r]
    ELSE IF Len(bits) = 1
         THEN [q |-> <<(2 * r + bits[1]) \div n>>, r |-> (2 * r + bits[1]) % n]
         ELSE LET half == Len(bits) \div 2
                  left == LongDiv(SubSeq(bits, 1, half), n, r)
                  right == LongDiv(SubSeq(bits, half + 1, Len(bits)), n, left.r)
              IN [q |-> left.q \o right.q, r |-> right.r]

\* (bits * 2^(e - Len(bits) + 1)) / n, correctly rounded
DivBits(bits, e, n) ==
    LET d == LongDiv(bits \o Zeros(GuardBits), n, 0)
    IN Normalize(d.q, e, d.r # 0)

\* integer / integer
FloatQuotient(a, b) == IF a = 0 THEN Zero ELSE DivBits(ToBits(a), Len(ToBits(a)) - 1, b)

\* x / n
FloatDiv(x, n) == IF x.z THEN Zero ELSE DivBits(x.m, x.e, n)

\* the carry into position i of a + b: some position to the right
\* generates one and every position between passes it on
CarryInto(a, b, i) ==
    \E j \in (i + 1)..Len(a) :
        /\ a[j] + b[j] = 2
        /\ \A k \in (i + 1)..(j - 1) : a[k] + b[k] = 1

\* a + b for bit strings of one length, one bit longer
AddBits(a, b) ==
    [i \in 1..(Len(a) + 1) |->
        IF i = 1 THEN (IF CarryInto(a, b, 0) THEN 1 ELSE 0)
        ELSE (a[i - 1] + b[i - 1] + (IF CarryInto(a, b, i - 1) THEN 1 ELSE 0)) % 2]

\* x + y
FloatAdd(x, y) ==
    IF x.z THEN y
    ELSE IF y.z THEN x
    ELSE LET hi == IF x.e >= y.e THEN x ELSE y
             lo == IF x.e >= y.e THEN y ELSE x
             d == hi.e - lo.e
         IN Normalize(AddBits(hi.m \o Zeros(d), Zeros(d) \o lo.m), hi.e + 1, FALSE)

\* x > y
FloatGreater(x, y) ==
    IF x.z THEN FALSE
    ELSE IF y.z THEN TRUE
    ELSE \/ x.e > y.e
         \/ /\ x.e = y.e
            /\ \E i \in 1..Precision :
                  /\ x.m[i] > y.m[i]
                  /\ \A j \in 1..(i - 1) : x.m[j] = y.m[j]

\* const threshold = 0.00015
threshold == FloatQuotient(Threshold, RatioScale)

\* candles.map(c => (c.high - c.low) / c.open)
RangeRatio(c) == FloatQuotient(c.high - c.low, c.open)

\* ranges.reduce((a, b) => a + b, 0)
RECURSIVE SumRanges(_)
SumRanges(candles) ==
    IF candles = <<>> THEN Zero
    ELSE FloatAdd(SumRanges(SubSeq(candles, 1, Len(candles) - 1)),
                  RangeRatio(candles[Len(candles)]))

\* the length test off by one: three candles still count as too few
isMarketActiveShortOfFour(candles) ==
    IF Len(candles) <= MinCandles THEN TRUE
    ELSE FloatGreater(FloatDiv(SumRanges(candles), Len(candles)), threshold)

\* avgRange > threshold, with avgRange = sum / length
isMarketActive(candles) ==
    IF Len(candles) < MinCandles THEN TRUE
    ELSE FloatGreater(FloatDiv(SumRanges(candles), Len(candles)), threshold)

\* isMarketActive(snapshot1m.recentCandles) for each feed of the exploration
MarketActivity == [candles \in CandleFeeds |-> isMarketActive(candles)]

\* the values runAgentCycle closes over: the agentStatus and the
\* agentConfig.isActive of the render that created it
Closure(status, active) == [agentStatus |-> status, isActive |-> active]

\* if (agentStatus === 'EXECUTING' || !chartRef.current) return;
PassesGuard(closure) == closure.agentStatus # "EXECUTING"

NoSnapshot == [present |-> FALSE]
Snapshot(tf, price, candles) ==
    [present |-> TRUE, timeframe |-> tf, currentPrice |-> price, recentCandles |-> candles]

NewCycle(closure) ==
    [stage |-> "HTF", retry |-> FALSE, closure |-> closure,
     htf |-> NoSnapshot, ltf |-> NoSnapshot, vltf |-> NoSnapshot]

\* the synchronous part of runAgentCycle(): guard, setAgentStatus('SCANNING
\* HTF'), captureFrame('4h') up to its first await
CanInvoke(closure, maxStarts) ==
    PassesGuard(closure) => (starts < maxStarts /\ Len(cycles) < MaxInFlight)

StatusAfterInvoke(closure, status) ==
    IF PassesGuard(closure) THEN "SCANNING HTF" ELSE status
CyclesAfterInvoke(closure, cs) ==
    IF PassesGuard(closure) THEN Append(cs, NewCycle(closure)) ELSE cs
ChartAfterInvoke(closure, tf) ==
    IF PassesGuard(closure) THEN "4h" ELSE tf
StartsAfterInvoke(closure, n) ==
    IF PassesGuard(closure) THEN n + 1 ELSE n

\* ---- browser timers: armed 60 s timers fire in the order they were armed,
\* because the period (intervalSeconds * 1000) equals the rate-limit pause ----
IntervalTimer(closure) == [kind |-> "interval", closure |-> closure, inRef |-> TRUE]
ResumeTimer(closure) == [kind |-> "resume", closure |-> closure, inRef |-> FALSE]

\* if (agentTimerRef.current) clearInterval(agentTimerRef.current)
ClearRef(ts) == SelectSeq(ts, LAMBDA t : ~t.inRef)

\* agentTimerRef.current = setInterval(runAgentCycle, intervalSeconds * 1000)
ArmInterval(ts, closure) ==
    Append([i \in 1..Len(ts) |-> [ts[i] EXCEPT !.inRef = FALSE]], IntervalTimer(closure))

\* ---- Analysis gateway (analyzeMultiTimeframeAgent) ----
NoResult == [present |-> FALSE]

\* the catch block: RATE_LIMIT when the error text contains 429 or the
\* status is RESOURCE_EXHAUSTED, the generic failure otherwise
GatewayError(raw) ==
    IF raw.has429 \/ raw.resourceExhausted THEN "RATE_LIMIT" ELSE "AGENT_FAILED"

\* an answer without content taken for a signal to wait
analyzeMultiTimeframeAgentEmptyAsWait(data, raw) ==
    IF raw.type \in {"json", "empty"}
    THEN [ok |-> TRUE,
          result |-> [present |-> TRUE,
                      currentPrice |-> data.livePrice,
                      execution |-> [raw.execution EXCEPT !.entryPrice = data.livePrice]]]
    ELSE [ok |-> FALSE, message |-> GatewayError(raw)]

analyzeMultiTimeframeAgent(data, raw) ==
    IF raw.type = "json"
    THEN [ok |-> TRUE,
          result |-> [present |-> TRUE,
                      currentPrice |-> data.livePrice,
                      execution |-> [raw.execution EXCEPT !.entryPrice = data.livePrice]]]
    ELSE [ok |-> FALSE, message |-> GatewayError(raw)]

\* ---- Analysis gateway (analyzeCharts, the manual path) ----
\* a || b on numbers: 0, NaN and undefined are falsy
OrElse(a, b) == IF IsNum(a) /\ a.v # 0 THEN a ELSE b

\* { key: fallback, ...parsed.execution }: the key of the spread wins when
\* the Oracle gave one
Spread(fallback, parsed) == IF parsed = Undefined THEN fallback ELSE parsed

\* price is marketContext.price
analyzeCharts(price, raw) ==
    IF raw.type = "json"
    THEN [ok |-> TRUE,
          result |-> [present |-> TRUE,
                      currentPrice |-> OrElse(price, N(0)),
                      execution |-> [raw.execution EXCEPT
                          !.entryPrice = Spread(OrElse(@, OrElse(price, N(0))), @),
                          !.stopLoss = Spread(OrElse(@, N(0)), @),
                          !.takeProfit1 = Spread(OrElse(@, N(0)), @)]]]
    ELSE [ok |-> FALSE, message |-> "ANALYSIS_FAILED"]

\* the comparison made strict: a signal exactly at minConfidence is rejected
DecisionStrictlyAbove(execution, minConfidence) ==
    IF execution.action # "WAIT"
    THEN IF execution.confidenceScore > minConfidence THEN "EXECUTE"
         ELSE "REJECT_LOW_CONFIDENCE"
    ELSE "REJECT_WAIT"

\* Step 5 of runAgentCycle
Decision(execution, minConfidence) ==
    IF execution.action # "WAIT"
    THEN IF execution.confidenceScore >= minConfidence THEN "EXECUTE"
         ELSE "REJECT_LOW_CONFIDENCE"
    ELSE "REJECT_WAIT"

\* ---- AnalysisView ----
\* if (autoExecute && result.execution.action !== 'WAIT' && bridgeStatus === 'IDLE')
AutoExecutes(autoExecute, result, status) ==
    /\ autoExecute
    /\ result.present
    /\ result.execution.action # "WAIT"
    /\ status = "IDLE"

\* handlePaperExecute() with the listener array ls
handlePaperExecute(result, ls) ==
    /\ nextId <= MaxOpens
    /\ bridgeStatus' = "SENDING"
    /\ pendingBridge' = pendingBridge + 1
    /\ \E ticket \in Tickets : executePaperTrade(result.execution, ticket, ls)

\* the effects of AnalysisView after a render with this result and this
\* autoExecute: on the first render the component mounts (bridgeStatus
\* starts IDLE, the subscription effect registers the view's listener),
\* then the auto-execution effect runs
ViewEffects(result, autoExecute) ==
    LET mounted == analysisResult.present
        ls == IF mounted THEN listeners ELSE Append(listeners, "view")
        status == IF mounted THEN bridgeStatus ELSE "IDLE"
    IN /\ listeners' = ls
       /\ unsubs' = IF mounted THEN unsubs ELSE unsubs \cup {"view"}
       /\ IF AutoExecutes(autoExecute, result, status)
          THEN handlePaperExecute(result, ls)
          ELSE /\ bridgeStatus' = status
               /\ UNCHANGED <<pendingBridge, accountState, nextId, tickCount, closedLog>>
               /\ delivered' = IF mounted THEN delivered
                               ELSE <<[listener |-> "view", state |-> accountState]>>

\* ---- operator: toggleAgent and the agent loop effect ----
Activate(maxStarts, maxToggles) ==
    /\ ~isActive
    /\ toggles < maxToggles
    /\ LET closure == Closure(agentStatus, TRUE)
       IN /\ CanInvoke(closure, maxStarts)
          /\ isActive' = TRUE
          /\ toggles' = toggles + 1
          /\ agentLogs' = addAgentLog(agentLogs, "Agent Activated", "INFO")
          /\ agentStatus' = StatusAfterInvoke(closure, agentStatus)
          /\ cycles' = CyclesAfterInvoke(closure, cycles)
          /\ chartTimeframe' = ChartAfterInvoke(closure, chartTimeframe)
          /\ starts' = StartsAfterInvoke(closure, starts)
          /\ timers' = ArmInterval(ClearRef(timers), closure)
    /\ IF analysisResult.present
       THEN ViewEffects(analysisResult, TRUE)
       ELSE UNCHANGED <<ledgerVars, viewVars>>
    /\ UNCHANGED <<analysisResult, pendingResets, waits, webhookVars>>

Deactivate(maxToggles) ==
    /\ isActive
    /\ toggles < maxToggles
    /\ isActive' = FALSE
    /\ toggles' = toggles + 1
    /\ timers' = ClearRef(timers)
    /\ agentStatus' = "IDLE"
    /\ agentLogs' = addAgentLog(agentLogs, "Agent Deactivated", "WARNING")
    /\ UNCHANGED <<cycles, analysisResult, starts, waits, ledgerVars, viewVars, chartVars, webhookVars>>

\* ---- timers ----
IntervalFires(maxStarts) ==
    /\ timers # <<>>
    /\ Head(timers).kind = "interval"
    /\ LET closure == Head(timers).closure
       IN /\ CanInvoke(closure, maxStarts)
          /\ agentStatus' = StatusAfterInvoke(closure, agentStatus)
          /\ cycles' = CyclesAfterInvoke(closure, cycles)
          /\ chartTimeframe' = ChartAfterInvoke(closure, chartTimeframe)
          /\ starts' = StartsAfterInvoke(closure, starts)
    /\ timers' = Append(Tail(timers), Head(timers))
    /\ UNCHANGED <<isActive, agentLogs, analysisResult, toggles, waits, pendingResets,
                   ledgerVars, viewVars, webhookVars>>

\* the setTimeout(..., 60000) callback of the RATE_LIMIT handler; it reads
\* agentConfig.isActive of the closure that armed it
ResumeFires(maxStarts) ==
    /\ timers # <<>>
    /\ Head(timers).kind = "resume"
    /\ agentLogs' = addAgentLog(agentLogs, "Cooldown Complete", "INFO")
    /\ LET closure == Head(timers).closure
       IN IF closure.isActive
          THEN /\ CanInvoke(closure, maxStarts)
               /\ agentStatus' = StatusAfterInvoke(closure, agentStatus)
               /\ cycles' = CyclesAfterInvoke(closure, cycles)
               /\ chartTimeframe' = ChartAfterInvoke(closure, chartTimeframe)
               /\ starts' = StartsAfterInvoke(closure, starts)
               /\ timers' = ArmInterval(Tail(timers), closure)
          ELSE /\ timers' = Tail(timers)
               /\ UNCHANGED <<agentStatus, cycles, chartTimeframe, starts>>
    /\ UNCHANGED <<isActive, analysisResult, toggles, waits, pendingResets, ledgerVars, viewVars, webhookVars>>

\* ---- one cycle: captureFrame ----
Capturing(i) == i \in 1..Len(cycles) /\ cycles[i].stage \in {"HTF", "MTF", "SCALP"}

StageTimeframe(stage) ==
    IF stage = "HTF" THEN "4h" ELSE IF stage = "MTF" THEN "15m" ELSE "1m"

\* the retry wait as a loop: waits again as long as the chart is not ready
CaptureWaitsLoops(i, maxWaits) ==
    /\ Capturing(i)
    /\ waits < maxWaits
    /\ waits' = waits + 1
    /\ cycles' = [cycles EXCEPT ![i].retry = TRUE]
    /\ agentLogs' = addAgentLog(agentLogs, "Waiting for chart data", "WARNING")
    /\ UNCHANGED <<agentStatus, isActive, timers, analysisResult, starts, toggles,
                   ledgerVars, viewVars, chartVars, webhookVars>>

\* after the 2000 ms settle delay isChartReady() is false: log and wait 1500 ms
CaptureWaitsWithin(i, maxWaits) ==
    /\ Capturing(i)
    /\ ~cycles[i].retry
    /\ waits < maxWaits
    /\ waits' = waits + 1
    /\ cycles' = [cycles EXCEPT ![i].retry = TRUE]
    /\ agentLogs' = addAgentLog(agentLogs, "Waiting for chart data", "WARNING")
    /\ UNCHANGED <<agentStatus, isActive, timers, analysisResult, starts, toggles,
                   ledgerVars, viewVars, chartVars, webhookVars>>

CaptureWaits(i) == CaptureWaitsWithin(i, MaxWaits)

\* the catch block for an error other than RATE_LIMIT
CycleFails(i) ==
    /\ agentLogs' = addAgentLog(agentLogs, "Agent Error", "ERROR")
    /\ agentStatus' = "COOLDOWN"
    /\ cycles' = RemoveAt(cycles, i)
    /\ UNCHANGED <<isActive, timers, analysisResult, starts, toggles, waits,
                   ledgerVars, viewVars, chartVars, webhookVars>>

\* a missing snapshot is passed on to the Oracle instead of being thrown
CaptureFailsFallsThrough(i) ==
    /\ Capturing(i)
    /\ cycles' = [cycles EXCEPT ![i].stage = "ORACLE", ![i].retry = FALSE]
    /\ agentStatus' = "ANALYZING"
    /\ agentLogs' = addAgentLog(agentLogs, "Analyzing Confluence", "INFO")
    /\ UNCHANGED <<isActive, timers, analysisResult, starts, toggles, waits,
                   ledgerVars, viewVars, chartVars, webhookVars>>

\* getMarketSnapshot() returned null
CaptureFails(i) ==
    /\ Capturing(i)
    /\ CycleFails(i)

\* getMarketSnapshot() returned the HTF or the MTF snapshot: next capture
CaptureNext(i) ==
    /\ Capturing(i)
    /\ cycles[i].stage \in {"HTF", "MTF"}
    /\ \E candles \in TrendFeeds :
         LET snap == Snapshot(chartTimeframe, LivePrice, candles)
         IN IF cycles[i].stage = "HTF"
            THEN /\ cycles' = [cycles EXCEPT ![i].htf = snap, ![i].stage = "MTF",
                                             ![i].retry = FALSE]
                 /\ agentStatus' = "SCANNING MTF"
                 /\ chartTimeframe' = "15m"
            ELSE /\ cycles' = [cycles EXCEPT ![i].ltf = snap, ![i].stage = "SCALP",
                                             ![i].retry = FALSE]
                 /\ agentStatus' = "SCANNING 1m"
                 /\ chartTimeframe' = "1m"
    /\ UNCHANGED <<isActive, agentLogs, timers, analysisResult, starts, toggles, waits,
                   pendingResets, ledgerVars, viewVars, webhookVars>>

\* getMarketSnapshot() returned the 1m snapshot with these candles: the
\* pre-flight check, then either the quota-saving return or step 4
ScalpCaptured(i, candles) ==
    /\ Capturing(i)
    /\ cycles[i].stage = "SCALP"
    /\ IF ~MarketActivity[candles]
       THEN /\ agentLogs' = addAgentLog(agentLogs, "Market Flat", "WARNING")
            /\ agentStatus' = "COOLDOWN"
            /\ pendingResets' = pendingResets + 1
            /\ cycles' = RemoveAt(cycles, i)
       ELSE /\ agentStatus' = "ANALYZING"
            /\ agentLogs' = addAgentLog(agentLogs, "Analyzing Confluence", "INFO")
            /\ cycles' = [cycles EXCEPT
                   ![i].vltf = Snapshot(chartTimeframe, LivePrice, candles),
                   ![i].stage = "ORACLE", ![i].retry = FALSE]
            /\ UNCHANGED pendingResets
    /\ UNCHANGED <<isActive, timers, analysisResult, starts, toggles, waits, chartTimeframe,
                   ledgerVars, viewVars, webhookVars>>

MarketFlat(i) ==
    \E candles \in CandleFeeds : ~MarketActivity[candles] /\ ScalpCaptured(i, candles)

StartAnalysis(i) ==
    \E candles \in CandleFeeds : MarketActivity[candles] /\ ScalpCaptured(i, candles)

\* ---- one cycle: the Oracle round trip ----
AtOracle(i) == i \in 1..Len(cycles) /\ cycles[i].stage = "ORACLE"

GatewayData(c) == [htf |-> c.htf, ltf |-> c.ltf, vltf |-> c.vltf,
                   livePrice |-> c.vltf.currentPrice]

\* the gateway returned a result for this response: steps 4-5 and the
\* AnalysisView effects of the render that follows
OracleAnswersWith(i, raw) ==
    /\ AtOracle(i)
    /\ LET reply == analyzeMultiTimeframeAgent(GatewayData(cycles[i]), raw)
         IN /\ reply.ok
            /\ analysisResult' = reply.result
            /\ LET decision == Decision(reply.result.execution, MinConfidence)
               IN /\ agentStatus' = IF decision = "EXECUTE" THEN "EXECUTING" ELSE "COOLDOWN"
                  /\ agentLogs' = addAgentLog(agentLogs,
                        IF decision = "EXECUTE" THEN "SCALP SIGNAL"
                        ELSE IF decision = "REJECT_LOW_CONFIDENCE" THEN "Signal rejected"
                        ELSE "Structure Neutral",
                        IF decision = "EXECUTE" THEN "SUCCESS"
                        ELSE IF decision = "REJECT_LOW_CONFIDENCE" THEN "WARNING"
                        ELSE "INFO")
                  /\ pendingResets' = IF decision = "EXECUTE" THEN pendingResets + 1
                                      ELSE pendingResets
            /\ ViewEffects(reply.result, isActive)
    /\ cycles' = RemoveAt(cycles, i)
    /\ UNCHANGED <<isActive, timers, starts, toggles, waits, chartTimeframe, webhookVars>>

OracleAnswers(i) == \E raw \in RawResponses : OracleAnswersWith(i, raw)

\* the gateway threw RATE_LIMIT: cancel the periodic timer, pause, resume
OracleRateLimitedWith(i, raw) ==
    /\ AtOracle(i)
    /\ LET reply == analyzeMultiTimeframeAgent(GatewayData(cycles[i]), raw)
       IN /\ ~reply.ok
          /\ reply.message = "RATE_LIMIT"
    /\ agentLogs' = addAgentLog(agentLogs, "Quota Limit Hit", "ERROR")
    /\ agentStatus' = "COOLDOWN"
    /\ timers' = Append(ClearRef(timers), ResumeTimer(cycles[i].closure))
    /\ cycles' = RemoveAt(cycles, i)
    /\ UNCHANGED <<isActive, analysisResult, starts, toggles, waits,
                   ledgerVars, viewVars, chartVars, webhookVars>>

OracleRateLimited(i) == \E raw \in RawResponses : OracleRateLimitedWith(i, raw)

\* the gateway threw any other error
OracleFailsWith(i, raw) ==
    /\ AtOracle(i)
    /\ LET reply == analyzeMultiTimeframeAgent(GatewayData(cycles[i]), raw)
       IN /\ ~reply.ok
          /\ reply.message # "RATE_LIMIT"
    /\ CycleFails(i)

OracleFails(i) == \E raw \in RawResponses : OracleFailsWith(i, raw)

\* ---- short timeouts ----
\* setTimeout(() => chartRef.current?.setTimeframe('15m'), ...)
ViewReset ==
    /\ pendingResets > 0
    /\ pendingResets' = pendingResets - 1
    /\ chartTimeframe' = "15m"
    /\ UNCHANGED <<ledgerVars, agentVars, viewVars, webhookVars>>

\* setTimeout(() => setBridgeStatus('SUCCESS'), 500)
BridgeTimeout ==
    /\ pendingBridge > 0
    /\ pendingBridge' = pendingBridge - 1
    /\ bridgeStatus' = "SUCCESS"
    /\ UNCHANGED <<ledgerVars, agentVars, chartVars, webhookVars>>

\* ---- manual analysis ----
\* handleManualAnalyze() with at least one image, when analyzeCharts
\* resolves: setAnalysisResult(result), then the AnalysisView effects
ManualAnalyze ==
    /\ \E price \in LivePrices, raw \in RawResponses :
         LET reply == analyzeCharts(price, raw)
         IN /\ reply.ok
            /\ analysisResult' = reply.result
            /\ ViewEffects(reply.result, isActive)
    /\ UNCHANGED <<agentStatus, isActive, agentLogs, timers, cycles, starts, toggles, waits,
                   chartVars, webhookVars>>

\* the paper execution button of AnalysisView: onClick={handlePaperExecute}
ManualExecute ==
    /\ analysisResult.present
    /\ analysisResult.execution.action # "WAIT"
    /\ handlePaperExecute(analysisResult, listeners)
    /\ UNCHANGED <<listeners, unsubs, agentVars, chartVars, webhookVars>>

\* ---- AgentPanel ----
\* the "Clear Terminal" button: onClearLogs={() => setAgentLogs([])}
ClearLogs ==
    /\ agentLogs # <<>>
    /\ agentLogs' = <<>>
    /\ UNCHANGED <<agentStatus, isActive, timers, cycles, analysisResult, starts, toggles,
                   waits, ledgerVars, viewVars, chartVars, webhookVars>>

\* ------------------------------------------------------------------------
\* Specifications
\* ------------------------------------------------------------------------
\* the state after the first render: the agent loop effect has run its
\* inactive branch once (status IDLE, one "Agent Deactivated" entry)
Init ==
    /\ accountState = [balance |-> N(INITIAL_BALANCE), equity |-> N(INITIAL_BALANCE),
                       marginUsed |-> N(0), freeMargin |-> N(INITIAL_BALANCE),
                       positions |-> <<>>]
    /\ listeners = <<>>
    /\ unsubs = {}
    /\ delivered = <<>>
    /\ nextId = 1
    /\ tickCount = 0
    /\ closedLog = <<>>
    /\ agentStatus = "IDLE"
    /\ isActive = FALSE
    /\ agentLogs = <<LogEntry("Agent Deactivated", "WARNING")>>
    /\ timers = <<>>
    /\ cycles = <<>>
    /\ analysisResult = NoResult
    /\ starts = 0
    /\ toggles = 0
    /\ waits = 0
    /\ bridgeStatus = "IDLE"
    /\ pendingBridge = 0
    /\ chartTimeframe = "1h"
    /\ pendingResets = 0
    /\ webhookPending = <<>>
    /\ webhookReplies = <<>>
    /\ webhookSent = <<>>

CycleStep ==
    \E i \in 1..MaxInFlight :
        \/ CaptureWaits(i)
        \/ CaptureFails(i)
        \/ CaptureNext(i)
        \/ MarketFlat(i)
        \/ StartAnalysis(i)
        \/ OracleAnswers(i)
        \/ OracleRateLimited(i)
        \/ OracleFails(i)

\* The agent scheduler with the AnalysisView it renders, which opens
\* positions on the ledger (the ledger's own tick and close are in
\* LedgerSpec).  Durations are abstracted: pending continuations run in any
\* order, so every real schedule is a behaviour of Spec.
Next ==
    \/ Activate(MaxStarts, MaxToggles)
    \/ Deactivate(MaxToggles)
    \/ IntervalFires(MaxStarts)
    \/ ResumeFires(MaxStarts)
    \/ CycleStep
    \/ ViewReset
    \/ BridgeTimeout

Spec == Init /\ [][Next]_vars

\* the same program with the browser honouring its short timeouts: a
\* pending setTimeout(..., 2000) callback eventually runs
PostTradeSpec == Init /\ [][Next]_vars /\ WF_vars(ViewReset)

\* no wait of at most 2 s is pending: no capture settle or retry delay, no
\* delayed view reset, no bridge status timeout
Quiet ==
    /\ \A i \in 1..Len(cycles) : cycles[i].stage = "ORACLE"
    /\ pendingResets = 0
    /\ pendingBridge = 0

\* Schedules in which every short wait expires before the next 60 s timer
\* does: a 60 s timer fires only while the agent is idle or waits for the
\* Oracle, whose latency is unbounded.  Every behaviour of PacedSpec is a
\* schedule of the program.
PacedNext ==
    \/ Activate(PacedStarts, PacedToggles)
    \/ Deactivate(PacedToggles)
    \/ (Quiet /\ IntervalFires(PacedStarts))
    \/ (Quiet /\ ResumeFires(PacedStarts))
    \/ CycleStep
    \/ ViewReset
    \/ BridgeTimeout

PacedSpec == Init /\ [][PacedNext]_vars

\* The paced schedules of the rate-limit path alone, over longer runs: every
\* Oracle call is rate limited.
BackoffNext ==
    \/ Activate(BackoffStarts, BackoffToggles)
    \/ Deactivate(BackoffToggles)
    \/ (Quiet /\ IntervalFires(BackoffStarts))
    \/ (Quiet /\ ResumeFires(BackoffStarts))
    \/ \E i \in 1..MaxInFlight :
          \/ CaptureFails(i)
          \/ CaptureNext(i)
          \/ StartAnalysis(i)
          \/ OracleRateLimited(i)

BackoffSpec == Init /\ [][BackoffNext]_vars

\* Long runs of the log: the operator toggles the agent while no cycle is in
\* flight, every cycle fails at a capture, and the terminal is cleared at
\* any time.
LogNext ==
    \/ (cycles = <<>> /\ Activate(LogStarts, LogToggles))
    \/ (cycles = <<>> /\ Deactivate(LogToggles))
    \/ \E i \in 1..MaxInFlight : CaptureFails(i)
    \/ ClearLogs

LogSpec == Init /\ [][LogNext]_vars

\* ---- the ledger on its own, driven through its exported functions ----
LedgerOpenFrom(executions) ==
    /\ nextId <= MaxOpens
    /\ \E execution \in executions, ticket \in Tickets :
          executePaperTrade(execution, ticket, listeners)
    /\ UNCHANGED <<listeners, unsubs, agentVars, viewVars, chartVars, webhookVars>>

LedgerOpen == LedgerOpenFrom(LedgerExecutions)

LedgerClose ==
    /\ \E id \in 1..MaxOpens : closePosition(id)
    /\ UNCHANGED <<agentVars, viewVars, chartVars, webhookVars>>

LedgerTick ==
    /\ tickMarket
    /\ UNCHANGED <<agentVars, viewVars, chartVars, webhookVars>>

LedgerSubscribe ==
    /\ \E l \in ListenerIds : subscribeToAccountUpdates(l)
    /\ UNCHANGED <<agentVars, viewVars, chartVars, webhookVars>>

LedgerUnsubscribe ==
    /\ \E l \in ListenerIds : unsubscribe(l)
    /\ UNCHANGED <<agentVars, viewVars, chartVars, webhookVars>>

LedgerNext ==
    \/ LedgerOpen
    \/ LedgerClose
    \/ LedgerTick
    \/ LedgerSubscribe
    \/ LedgerUnsubscribe

LedgerSpec == Init /\ [][LedgerNext]_vars

\* The manual path alone: uploads analysed by analyzeCharts, executed with
\* the button of the view, under the ledger's tick.
ManualNext ==
    \/ ManualAnalyze
    \/ ManualExecute
    \/ BridgeTimeout
    \/ LedgerTick

ManualSpec == Init /\ [][ManualNext]_vars

\* ------------------------------------------------------------------------
\* The captures of the cycles of one activation, up to the Oracle call
\* ------------------------------------------------------------------------
CaptureStarts == 2
CaptureToggles == 1
CaptureWaitBound == 3

CaptureSpecNext ==
    \/ Activate(CaptureStarts, CaptureToggles)
    \/ IntervalFires(CaptureStarts)
    \/ ViewReset
    \/ \E i \in 1..MaxInFlight :
          \/ CaptureWaitsWithin(i, CaptureWaitBound)
          \/ CaptureFails(i)
          \/ CaptureNext(i)
          \/ MarketFlat(i)
          \/ StartAnalysis(i)

CaptureSpec == Init /\ [][CaptureSpecNext]_vars

\* ------------------------------------------------------------------------
\* The ledger fed with the signals of the manual path
\* ------------------------------------------------------------------------
\* parsed executions without stopLoss and takeProfit1, and one with both
StoplessExecutions ==
    { Execution("BUY", 80, N(40000), Undefined, Undefined, N(1)),
      Execution("SELL", 80, Undefined, Undefined, Undefined, N(2)),
      Execution("SELL", 75, Undefined, Undefined, Undefined, Undefined),
      Execution("BUY", 80, N(40000), N(39998), N(40002), N(1)) }

\* what analyzeCharts makes of them at the live price
DefaultedExecutions ==
    { analyzeCharts(LivePrice, JsonResponse(e)).result.execution : e \in StoplessExecutions }

DefaultsNext ==
    \/ LedgerOpenFrom(DefaultedExecutions)
    \/ LedgerTick
    \/ LedgerSubscribe

DefaultsSpec == Init /\ [][DefaultsNext]_vars

\* ------------------------------------------------------------------------
\* Bridge service
\* ------------------------------------------------------------------------
MaxBridgeCalls == 3

BridgeConfigs == { [isEnabled |-> b] : b \in BOOLEAN }

\* `ORD-${Math.floor(Math.random() * 999999)}`: the two ends of the range
TradeIds == { "ORD-0", "ORD-999998" }

\* the unconditional variant: the isEnabled test left out
executeTradeOnBridgeUnchecked(execution, config, tradeId) ==
    [requests |-> <<>>,
     delay |-> 2000,
     reply |-> IF execution.action = "WAIT"
               THEN [success |-> FALSE, message |-> "Signal was WAIT. No trade executed."]
               ELSE [success |-> TRUE, message |-> "Order Executed", tradeId |-> tradeId]]

\* executeTradeOnBridge(execution, asset, config): the requests it sends
\* to the webhook (the fetch is commented out: none), the timeout its
\* promise waits for, and the value the promise resolves with
executeTradeOnBridge(execution, config, tradeId) ==
    [requests |-> <<>>,
     delay |-> IF ~config.isEnabled THEN 0 ELSE 2000,
     reply |-> IF ~config.isEnabled
               THEN [success |-> FALSE, message |-> "Bridge is disabled in settings."]
               ELSE IF execution.action = "WAIT"
               THEN [success |-> FALSE, message |-> "Signal was WAIT. No trade executed."]
               ELSE [success |-> TRUE, message |-> "Order Executed", tradeId |-> tradeId]]

\* a caller invokes executeTradeOnBridge: the promise resolves at once or
\* waits for its setTimeout
WebhookCall ==
    /\ Len(webhookPending) + Len(webhookReplies) < MaxBridgeCalls
    /\ \E execution \in OracleExecutions, config \in BridgeConfigs, tradeId \in TradeIds :
         LET call == executeTradeOnBridge(execution, config, tradeId)
             outcome == [action |-> execution.action, isEnabled |-> config.isEnabled,
                         waited |-> 0, reply |-> call.reply]
         IN /\ webhookSent' = webhookSent \o call.requests
            /\ IF call.delay = 0
               THEN /\ webhookReplies' = Append(webhookReplies, outcome)
                    /\ UNCHANGED webhookPending
               ELSE /\ webhookPending' = Append(webhookPending, outcome)
                    /\ UNCHANGED webhookReplies
    /\ UNCHANGED <<ledgerVars, agentVars, viewVars, chartVars>>

\* setTimeout(..., 2000) of the oldest waiting call fires
WebhookLatencyElapses ==
    /\ webhookPending # <<>>
    /\ webhookPending' = Tail(webhookPending)
    /\ webhookReplies' = Append(webhookReplies, [Head(webhookPending) EXCEPT !.waited = 2000])
    /\ UNCHANGED <<webhookSent, ledgerVars, agentVars, viewVars, chartVars>>

WebhookNext ==
    \/ WebhookCall
    \/ WebhookLatencyElapses

WebhookSpec == Init /\ [][WebhookNext]_vars

\* ------------------------------------------------------------------------
\* Properties
\* ------------------------------------------------------------------------
IsOpenId(id) == \E i \in 1..Len(accountState.positions) : accountState.positions[i].id = id

RECURSIVE OpenPnl(_)
OpenPnl(positions) ==
    IF positions = <<>> THEN N(0)
    ELSE Add(Head(positions).pnl, OpenPnl(Tail(positions)))

\* C1 as claimed: in every reachable account state, equity equals balance
\* plus the pnl of the open positions and freeMargin equals equity minus
\* marginUsed, as numbers.
C1_AccountEquations ==
    /\ Eq(accountState.equity, Add(accountState.balance, OpenPnl(accountState.positions)))
    /\ Eq(accountState.freeMargin, Sub(accountState.equity, accountState.marginUsed))

RECURSIVE ClosedPnl(_)
ClosedPnl(log) ==
    IF log = <<>> THEN N(0)
    ELSE Add(Head(log).pnl, ClosedPnl(Tail(log)))

TimesFolded(id) == Cardinality({i \in 1..Len(closedLog) : closedLog[i].id = id})

\* C2: every position that left the open set had its pnl added to balance
\* exactly once, no open position had it added, and (when the realized
\* amounts are numbers) balance is the initial balance plus exactly those
\* amounts, whatever the order of ticks and close calls.
C2_RealizedExactlyOnce ==
    /\ \A id \in 1..(nextId - 1) :
          TimesFolded(id) = IF IsOpenId(id) THEN 0 ELSE 1
    /\ (\A i \in 1..Len(closedLog) : IsNum(closedLog[i].pnl))
          => Eq(accountState.balance, Add(N(INITIAL_BALANCE), ClosedPnl(closedLog)))

\* two positions have left the open set with different realized amounts,
\* one of them nonzero
C2_Witness ==
    /\ Len(closedLog) >= 2
    /\ closedLog[1].pnl # closedLog[2].pnl
    /\ \E i \in 1..Len(closedLog) : IsNum(closedLog[i].pnl) /\ closedLog[i].pnl.v # 0
    /\ accountState.positions = <<>>

\* C3 as claimed: an active agent that receives a BUY or SELL signal below
\* minConfidence logs the rejection and leaves the ledger untouched.
C3_LowConfidenceLeavesLedger ==
    [][\A i \in 1..MaxInFlight, raw \in RawResponses :
          ( /\ isActive
            /\ raw.type = "json"
            /\ Decision(raw.execution, MinConfidence) = "REJECT_LOW_CONFIDENCE"
            /\ OracleAnswersWith(i, raw) )
          => ( /\ accountState' = accountState
               /\ Head(agentLogs').message = "Signal rejected" )]_vars

\* C4 as claimed: at most one cycle is in flight.
C4_AtMostOneCycleInFlight == Len(cycles) <= 1

ResumePending == \E k \in 1..Len(timers) : timers[k].kind = "resume"

\* C5 as claimed: a rate-limited failure leaves no periodic timer in the
\* ref, no periodic timer starts a cycle while the 60 s pause is pending,
\* and the end of the pause starts exactly one cycle.
C5_RateLimitBackoff ==
    [][ /\ \A i \in 1..MaxInFlight :
              OracleRateLimited(i) => \A k \in 1..Len(timers') : ~timers'[k].inRef
        /\ (ResumePending /\ IntervalFires(BackoffStarts))
              => Len(cycles') = Len(cycles)
        /\ ResumeFires(BackoffStarts) => Len(cycles') = Len(cycles) + 1 ]_vars

\* C6 as claimed: the end of the pause starts a cycle and arms the periodic
\* timer only if the agent is active then; otherwise nothing is started or
\* armed.
C6_ResumeOnlyIfActive ==
    [][ResumeFires(PacedStarts) =>
          IF isActive
          THEN /\ Len(cycles') = Len(cycles) + 1
               /\ \E k \in 1..Len(timers') : timers'[k].kind = "interval" /\ timers'[k].inRef
          ELSE /\ cycles' = cycles
               /\ timers' = Tail(timers)]_vars

\* C7 as claimed: while the agent is inactive no periodic timer is armed
\* and no cycle is started.
C7_InactiveStartsNothing ==
    /\ [](~isActive => \A k \in 1..Len(timers) : timers[k].kind # "interval")
    /\ [][~isActive' => Len(cycles') <= Len(cycles)]_vars

\* C8 as claimed, for an active agent: every EXECUTE decision opens exactly
\* one position.
C8_ExecuteOpensOnePosition ==
    [][\A i \in 1..MaxInFlight, raw \in RawResponses :
          ( /\ isActive
            /\ raw.type = "json"
            /\ Decision(raw.execution, MinConfidence) = "EXECUTE"
            /\ OracleAnswersWith(i, raw) )
          => Len(accountState'.positions) = Len(accountState.positions) + 1]_vars

\* at least three candles, each with high = low (range ratio 0)
AllFlat(candles) ==
    /\ Len(candles) >= MinCandles
    /\ \A k \in 1..Len(candles) : candles[k].high = candles[k].low

\* C9: a cycle whose 1m snapshot has at least three candles, all flat, never
\* reaches the Oracle; the step that takes the snapshot ends the cycle with
\* status COOLDOWN and the quota-skip entry at the head of the log.
C9_FlatMarketSkipsOracle ==
    /\ [](\A i \in 1..Len(cycles) :
             cycles[i].stage = "ORACLE" => ~AllFlat(cycles[i].vltf.recentCandles))
    /\ [][\A i \in 1..MaxInFlight, candles \in CandleFeeds :
             (AllFlat(candles) /\ ScalpCaptured(i, candles))
             => ( /\ agentStatus' = "COOLDOWN"
                  /\ Head(agentLogs') = LogEntry("Market Flat", "WARNING")
                  /\ Len(cycles') = Len(cycles) - 1
                  /\ \A j \in 1..Len(cycles') : cycles'[j] \in {cycles[k] : k \in 1..Len(cycles)} )]_vars

\* a cycle has just ended on the quota-skip path while another one, started
\* during it, is still in flight
C9_Witness ==
    /\ agentStatus = "COOLDOWN"
    /\ Head(agentLogs) = LogEntry("Market Flat", "WARNING")
    /\ pendingResets > 0
    /\ Len(cycles) = 1

\* C10: closing twice leaves the account that closing once leaves, for
\* every id; closing an id that is not open changes nothing and delivers
\* nothing.
C10_CloseIdempotent ==
    /\ [](\A id \in 1..(MaxOpens + 1) :
             /\ closePositionAcc(closePositionAcc(accountState, id), id)
                   = closePositionAcc(accountState, id)
             /\ ~IsOpenId(id) => closePositionAcc(accountState, id) = accountState)
    /\ [][\A id \in 1..(MaxOpens + 1) :
             (~IsOpenId(id) /\ closePosition(id))
             => (accountState' = accountState /\ delivered' = <<>>)]_vars

\* a listener is registered, one position with a floating pnl is open and
\* another id was closed before, so both cases of close arise
C10_Witness ==
    /\ listeners # <<>>
    /\ closedLog # <<>>
    /\ \E i \in 1..Len(accountState.positions) :
          /\ IsNum(accountState.positions[i].pnl)
          /\ accountState.positions[i].pnl.v # 0
    /\ delivered = <<>>

\* C11: a step that opens no position (a close, a tick, a subscription)
\* leaves marginUsed as it was, and marginUsed never decreases while it is
\* a number (every entryPrice and lots opened so far was a number >= 0).
C11_MarginOnlyOnOpen ==
    [][ /\ (nextId' = nextId) => accountState'.marginUsed = accountState.marginUsed
        /\ IsNum(accountState'.marginUsed)
              => Geq(accountState'.marginUsed, accountState.marginUsed) ]_vars

\* margin is still in use after every position has left the open set, one
\* of them closed by a tick and one by hand
C11_Witness ==
    /\ accountState.positions = <<>>
    /\ IsNum(accountState.marginUsed)
    /\ accountState.marginUsed.v > 0
    /\ \E i, j \in 1..Len(closedLog) :
          closedLog[i].reason = "MANUAL" /\ closedLog[j].reason \in {"SL", "TP"}

SatisfiesEquations(acc) ==
    /\ Eq(acc.equity, Add(acc.balance, OpenPnl(acc.positions)))
    /\ Eq(acc.freeMargin, Sub(acc.equity, acc.marginUsed))

\* C12 as claimed: subscribing delivers the current account once, to the new
\* listener only; every later call that changes the account delivers the new
\* account once to each registration, in registration order; and every
\* delivered account satisfies the equity and freeMargin equations.
C12_ListenerDeliveries ==
    [][ /\ \A l \in ListenerIds :
              subscribeToAccountUpdates(l)
                 => delivered' = <<[listener |-> l, state |-> accountState]>>
        /\ (accountState' # accountState)
              => /\ Len(delivered') = Len(listeners)
                 /\ \A i \in 1..Len(listeners) :
                       /\ delivered'[i].listener = listeners[i]
                       /\ delivered'[i].state = accountState'
        /\ \A i \in 1..Len(delivered') : SatisfiesEquations(delivered'[i].state) ]_vars

\* C13 as claimed: for every registry content and every unsubscribe function
\* handed out, calling it twice leaves the registry that calling it once
\* leaves.
C13_UnsubscribeIdempotent ==
    \A l \in unsubs :
        unsubscribeFrom(unsubscribeFrom(listeners, l), l) = unsubscribeFrom(listeners, l)

DecisionActions == {"BUY", "SELL", "WAIT"}
DecisionScores == {0, 40, 74, 75, 76, 99, 100}

\* the outcome the execution policy prescribes
PolicyOutcome(action, confidence, minConfidence) ==
    IF action = "WAIT" THEN "REJECT_WAIT"
    ELSE IF confidence >= minConfidence THEN "EXECUTE"
    ELSE "REJECT_LOW_CONFIDENCE"

\* C14: the decision of step 5 is the three-way function of (action,
\* confidenceScore, minConfidence): WAIT is rejected as WAIT whatever the
\* confidence, otherwise confidence >= minConfidence executes (equality
\* included), otherwise the signal is rejected for low confidence; and every
\* answered cycle sets the status and the log entry of exactly that outcome.
C14_DecisionThreeWay ==
    /\ [](\A action \in DecisionActions, confidence \in DecisionScores,
             minConfidence \in DecisionScores :
             Decision(Execution(action, confidence, Undefined, Undefined, Undefined, Undefined),
                      minConfidence)
                = PolicyOutcome(action, confidence, minConfidence))
    /\ [][\A i \in 1..MaxInFlight, raw \in RawResponses :
             (raw.type = "json" /\ OracleAnswersWith(i, raw))
             => LET outcome == PolicyOutcome(raw.execution.action,
                                             raw.execution.confidenceScore, MinConfidence)
                IN /\ outcome = "REJECT_WAIT"
                        => /\ agentStatus' = "COOLDOWN"
                           /\ Head(agentLogs') = LogEntry("Structure Neutral", "INFO")
                   /\ outcome = "EXECUTE"
                        => /\ agentStatus' = "EXECUTING"
                           /\ Head(agentLogs') = LogEntry("SCALP SIGNAL", "SUCCESS")
                   /\ outcome = "REJECT_LOW_CONFIDENCE"
                        => /\ agentStatus' = "COOLDOWN"
                           /\ Head(agentLogs') = LogEntry("Signal rejected", "WARNING")]_vars

\* a signal exactly at minConfidence has just been executed, after an earlier
\* cycle was answered WAIT with a confidence above minConfidence
C14_Witness ==
    /\ agentStatus = "EXECUTING"
    /\ analysisResult.present
    /\ analysisResult.execution.action = "SELL"
    /\ analysisResult.execution.confidenceScore = MinConfidence
    /\ Head(agentLogs) = LogEntry("SCALP SIGNAL", "SUCCESS")
    /\ \E k \in 1..Len(agentLogs) : agentLogs[k] = LogEntry("Structure Neutral", "INFO")

\* the stop-loss and the take-profit test of a position at its current price
StopLossHit(p) ==
    IF p.type = "BUY" THEN Leq(p.currentPrice, p.sl) ELSE Geq(p.currentPrice, p.sl)
TakeProfitHit(p) ==
    IF p.type = "BUY" THEN Geq(p.currentPrice, p.tp) ELSE Leq(p.currentPrice, p.tp)

\* C16: every position a tick closed whose new price met the stop-loss test
\* was closed with reason SL, also when it met the take-profit test too; TP
\* is the reason only when the stop-loss test failed and the take-profit
\* test held.
C16_StopLossFirst ==
    \A k \in 1..Len(closedLog) :
        closedLog[k].reason # "MANUAL"
        => /\ StopLossHit(closedLog[k].position) => closedLog[k].reason = "SL"
           /\ closedLog[k].reason = "SL" => StopLossHit(closedLog[k].position)
           /\ closedLog[k].reason = "TP"
                 => (~StopLossHit(closedLog[k].position) /\ TakeProfitHit(closedLog[k].position))

\* a BUY and a SELL position were each closed by a tick at a price that met
\* both tests
C16_Witness ==
    \E j, k \in 1..Len(closedLog) :
        /\ closedLog[j].position.type = "BUY"
        /\ closedLog[k].position.type = "SELL"
        /\ \A n \in {j, k} :
              /\ closedLog[n].reason = "SL"
              /\ StopLossHit(closedLog[n].position)
              /\ TakeProfitHit(closedLog[n].position)

\* (currentPrice - entryPrice) x direction x lots x 100000 of a position
PnlAtPrice(p) ==
    Mul(Mul(Mul(Sub(p.currentPrice, p.entryPrice),
                IF p.type = "BUY" THEN N(1) ELSE N(-1)), p.lots), N(ContractSize))

\* the positions the step from this state closed, as they left the map
NewlyClosed == [k \in 1..(Len(closedLog') - Len(closedLog)) |->
                   closedLog'[Len(closedLog) + k].position]

\* C17 as claimed: after a tick every position that was open has the pnl of
\* its new price, as a number; a BUY position whose new price is at or above
\* takeProfit and above stopLoss leaves the open set in that tick with reason
\* TP; and balance grows by exactly the pnl of the positions the tick closed.
C17_TickMarksToMarket ==
    [][(tickCount' = tickCount + 1)
        => /\ \A i \in 1..Len(accountState'.positions) :
                 Eq(accountState'.positions[i].pnl, PnlAtPrice(accountState'.positions[i]))
           /\ \A k \in 1..Len(NewlyClosed) :
                 Eq(NewlyClosed[k].pnl, PnlAtPrice(NewlyClosed[k]))
           /\ \A i \in 1..Len(accountState'.positions) :
                 LET p == accountState'.positions[i]
                 IN ~(p.type = "BUY" /\ Geq(p.currentPrice, p.tp)
                        /\ Geq(p.currentPrice, p.sl) /\ ~Eq(p.currentPrice, p.sl))
           /\ \A k \in 1..Len(NewlyClosed) :
                 LET p == NewlyClosed[k]
                 IN (p.type = "BUY" /\ Geq(p.currentPrice, p.tp)
                        /\ Geq(p.currentPrice, p.sl) /\ ~Eq(p.currentPrice, p.sl))
                    => p.closeReason = "TP"
           /\ Eq(accountState'.balance, FoldBalance(accountState.balance, NewlyClosed))]_vars

\* C18 as claimed: an open with action BUY or SELL puts exactly one new
\* position in front of the others, which stay as they were, with side =
\* action, currentPrice = entryPrice, pnl = 0, takeProfit = takeProfit1,
\* stopLoss = stopLoss and status OPEN; marginUsed grows by entryPrice x
\* lots, as a number; balance stays; and every registration is notified.
C18_OpenAddsOnePosition ==
    [][\A execution \in LedgerExecutions, ticket \in Tickets :
          (execution.action # "WAIT" /\ executePaperTrade(execution, ticket, listeners))
          => /\ Len(accountState'.positions) = Len(accountState.positions) + 1
             /\ Tail(accountState'.positions) = accountState.positions
             /\ LET p == Head(accountState'.positions)
                IN /\ p.type = execution.action
                   /\ p.entryPrice = execution.entryPrice
                   /\ p.currentPrice = execution.entryPrice
                   /\ p.pnl = N(0)
                   /\ p.tp = execution.takeProfit1
                   /\ p.sl = execution.stopLoss
                   /\ p.lots = execution.lotSizeCalculation
                   /\ p.status = "OPEN"
                   /\ Eq(accountState'.marginUsed,
                         Add(accountState.marginUsed, Mul(p.entryPrice, p.lots)))
             /\ accountState'.balance = accountState.balance
             /\ Len(delivered') = Len(listeners)
             /\ \A i \in 1..Len(listeners) :
                   delivered'[i] = [listener |-> listeners[i], state |-> accountState']]_vars

\* C19: an open whose signal has action WAIT changes nothing: balance,
\* equity, marginUsed, freeMargin and the open set stay as they were, no id
\* is consumed and no registration is called.
C19_WaitChangesNothing ==
    [][\A execution \in LedgerExecutions, ticket \in Tickets :
          (execution.action = "WAIT" /\ executePaperTrade(execution, ticket, listeners))
          => /\ accountState'.balance = accountState.balance
             /\ accountState'.equity = accountState.equity
             /\ accountState'.marginUsed = accountState.marginUsed
             /\ accountState'.freeMargin = accountState.freeMargin
             /\ accountState'.positions = accountState.positions
             /\ nextId' = nextId
             /\ delivered' = <<>>]_vars

\* an account with an open position and a registration, still allowed to
\* open, where the last operation called nobody
C19_Witness ==
    /\ accountState.positions # <<>>
    /\ listeners # <<>>
    /\ nextId <= MaxOpens
    /\ delivered = <<>>

\* the snapshots a cycle holds at each stage
HeldSnapshots(c) ==
    <<c.htf.present, c.ltf.present, c.vltf.present>>

\* C20: a cycle starts by requesting the 4h chart, a delivered HTF snapshot
\* is followed by the request for 15m and a delivered MTF snapshot by the
\* request for 1m, so a cycle holds the snapshots of the stages before its
\* own and reaches the Oracle only with all three; a capture that yields
\* no snapshot ends the cycle there with an ERROR entry at the head of the
\* log and status COOLDOWN, requesting no further timeframe and leaving
\* the analysis result alone.
C20_CaptureOrderAndAbort ==
    /\ [](\A i \in 1..Len(cycles) :
            HeldSnapshots(cycles[i]) =
               IF cycles[i].stage = "HTF" THEN <<FALSE, FALSE, FALSE>>
               ELSE IF cycles[i].stage = "MTF" THEN <<TRUE, FALSE, FALSE>>
               ELSE IF cycles[i].stage = "SCALP" THEN <<TRUE, TRUE, FALSE>>
               ELSE <<TRUE, TRUE, TRUE>>)
    /\ [][ /\ Len(cycles') = Len(cycles) + 1
               => /\ cycles'[Len(cycles')].stage = "HTF"
                  /\ chartTimeframe' = "4h"
                  /\ agentStatus' = "SCANNING HTF"
           /\ \A i \in 1..Len(cycles) :
                /\ CaptureNext(i)
                     => /\ cycles[i].stage = "HTF"
                           => cycles'[i].stage = "MTF" /\ chartTimeframe' = "15m"
                        /\ cycles[i].stage = "MTF"
                           => cycles'[i].stage = "SCALP" /\ chartTimeframe' = "1m"
                /\ CaptureFails(i)
                     => /\ cycles' = RemoveAt(cycles, i)
                        /\ chartTimeframe' = chartTimeframe
                        /\ analysisResult' = analysisResult
                        /\ Head(agentLogs').type = "ERROR"
                        /\ agentStatus' = "COOLDOWN" ]_vars

\* the only cycle so far failed at the MTF capture: the 1m chart was never
\* requested and no analysis exists
C20_Witness ==
    /\ starts = 1
    /\ cycles = <<>>
    /\ chartTimeframe = "15m"
    /\ agentStatus = "COOLDOWN"
    /\ Head(agentLogs) = LogEntry("Agent Error", "ERROR")
    /\ ~analysisResult.present

\* the average of (high - low) / open over the candles as a rational number,
\* compared with 15 / 100000 after multiplying out the denominators (every
\* open price of the feeds divides CommonOpen)
CommonOpen == FlatCandle.open

RECURSIVE ExactRangeSum(_)
ExactRangeSum(candles) ==
    IF candles = <<>> THEN 0
    ELSE (Head(candles).high - Head(candles).low) * (CommonOpen \div Head(candles).open)
           + ExactRangeSum(Tail(candles))

ExactAverageAbove(candles) ==
    ExactRangeSum(candles) * 100000 > 15 * Len(candles) * CommonOpen

\* C15 as claimed: the pre-flight check of a cycle lets the cycle go on to
\* the analysis exactly when the 1m snapshot has fewer than 3 candles or
\* the average of (high - low) / open over its candles is strictly greater
\* than 0.00015; an average equal to 0.00015 ends the cycle as flat.
C15_ActiveIffAboveThreshold ==
    [][\A i \in 1..MaxInFlight, candles \in CandleFeeds :
          ScalpCaptured(i, candles)
          => ((agentStatus' = "ANALYZING")
                <=> (Len(candles) < 3 \/ ExactAverageAbove(candles)))]_vars

\* the last thing the agent did was to end a cycle in the generic catch
FailedLast ==
    /\ agentStatus = "COOLDOWN"
    /\ Head(agentLogs) = LogEntry("Agent Error", "ERROR")

\* the timer that expires next is a periodic one
NextTickIsPeriodic == timers # <<>> /\ Head(timers).kind = "interval"

\* C21 as claimed: a cycle that fails with an error other than RATE_LIMIT
\* puts an ERROR entry at the head of the log, sets COOLDOWN and leaves
\* the timers as they are; and while the agent is active after such a
\* failure, the next expiry of a periodic timer starts a new cycle.
C21_FailureKeepsSchedule ==
    /\ [][\A i \in 1..Len(cycles) :
             (CaptureFails(i) \/ OracleFails(i))
             => /\ Head(agentLogs').type = "ERROR"
                /\ agentStatus' = "COOLDOWN"
                /\ timers' = timers
                /\ isActive' = isActive]_vars
    /\ []((FailedLast /\ isActive /\ NextTickIsPeriodic)
           => CyclesAfterInvoke(Head(timers).closure, cycles)
                 = Append(cycles, NewCycle(Head(timers).closure)))

\* the timers agentTimerRef.current refers to
RefTimers(ts) == {k \in 1..Len(ts) : ts[k].inRef}

\* C22 as claimed: the step that activates the agent starts exactly one
\* cycle, at its HTF capture, next to the cycles already in flight, and
\* arms exactly one periodic timer, the one the timer reference holds; and
\* every invocation by a timer starts at most one cycle.
C22_ActivationStartsOneCycle ==
    [][ /\ (~isActive /\ isActive')
           => /\ Len(cycles') = Len(cycles) + 1
              /\ SubSeq(cycles', 1, Len(cycles)) = cycles
              /\ cycles'[Len(cycles')].stage = "HTF"
              /\ Len(timers') = Len(ClearRef(timers)) + 1
              /\ timers'[Len(timers')].kind = "interval"
              /\ RefTimers(timers') = {Len(timers')}
        /\ (starts' # starts)
           => /\ starts' = starts + 1
              /\ Len(cycles') = Len(cycles) + 1 ]_vars

\* C23 as claimed: the log never holds more than 50 entries, and every step
\* that changes the log appends: the new log is one new entry followed by
\* the old log, without its oldest entry when the old log held 50.
C23_LogBoundedAppendOnly ==
    /\ [](Len(agentLogs) <= 50)
    /\ [][agentLogs' # agentLogs
           => /\ agentLogs' # <<>>
              /\ Tail(agentLogs')
                    = SubSeq(agentLogs, 1, IF Len(agentLogs) < 50 THEN Len(agentLogs) ELSE 49)]_vars

\* every numeric field of a signal is a number
SignalDefined(e) ==
    /\ IsNum(e.entryPrice)
    /\ IsNum(e.stopLoss)
    /\ IsNum(e.takeProfit1)
    /\ IsNum(e.takeProfit2)

\* the documented defaults for what the Oracle left out of parsed
DefaultsApplied(e, parsed, live) ==
    /\ parsed.entryPrice = Undefined => e.entryPrice = live
    /\ parsed.stopLoss = Undefined => Eq(e.stopLoss, N(0))
    /\ parsed.takeProfit1 = Undefined => Eq(e.takeProfit1, N(0))
    /\ parsed.takeProfit2 = Undefined => Eq(e.takeProfit2, N(0))

\* C24 as claimed: the signal that the gateway returns, on the agent path
\* and on the manual path, has entryPrice, stopLoss, takeProfit1 and
\* takeProfit2 defined as numbers, with the live price for an omitted
\* entryPrice and 0 for an omitted stopLoss, takeProfit1 or takeProfit2.
C24_SignalFieldsDefined ==
    [][ /\ \A i \in 1..Len(cycles), raw \in RawResponses :
             (raw.type = "json" /\ OracleAnswersWith(i, raw))
             => /\ SignalDefined(analysisResult'.execution)
                /\ DefaultsApplied(analysisResult'.execution, raw.execution,
                                   cycles[i].vltf.currentPrice)
        /\ \A price \in LivePrices, raw \in RawResponses :
             (/\ raw.type = "json"
              /\ analysisResult' = analyzeCharts(price, raw).result
              /\ ManualAnalyze)
             => /\ SignalDefined(analysisResult'.execution)
                /\ DefaultsApplied(analysisResult'.execution, raw.execution, price) ]_vars

\* response.text is empty
EmptyResponse == ErrorResponse("empty", FALSE, FALSE)

\* C25: for an Oracle response without content the gateway returns no
\* signal and no rate-limit error, and the cycle that receives it ends
\* alone: an ERROR entry at the head of the log, status COOLDOWN, the
\* other cycles, the analysis result, the account and the timers as they
\* were.
C25_EmptyResponseFailsCycle ==
    /\ [](\A i \in 1..Len(cycles) :
            AtOracle(i)
            => LET reply == analyzeMultiTimeframeAgent(GatewayData(cycles[i]), EmptyResponse)
               IN ~reply.ok /\ reply.message # "RATE_LIMIT")
    /\ [][\A i \in 1..Len(cycles) :
             OracleFailsWith(i, EmptyResponse)
             => /\ Head(agentLogs').type = "ERROR"
                /\ agentStatus' = "COOLDOWN"
                /\ cycles' = RemoveAt(cycles, i)
                /\ analysisResult' = analysisResult
                /\ accountState' = accountState
                /\ nextId' = nextId
                /\ timers' = timers
                /\ isActive' = isActive]_vars

\* the only cycle so far got as far as the Oracle and failed, with the
\* agent active and its periodic timer armed
C25_Witness ==
    /\ FailedLast
    /\ starts = 1
    /\ cycles = <<>>
    /\ chartTimeframe = "1m"
    /\ ~analysisResult.present
    /\ accountState.positions = <<>>
    /\ isActive
    /\ RefTimers(timers) # {}

\* C26: with the bridge disabled every call resolves at once, without
\* waiting for the timeout, with success = false and no tradeId, whatever
\* the action; with the bridge enabled success is true exactly when the
\* action is not WAIT; and no request is ever sent to the webhook.
C26_DisabledBridgeRejects ==
    /\ webhookSent = <<>>
    /\ \A k \in 1..Len(webhookPending) : webhookPending[k].isEnabled
    /\ \A k \in 1..Len(webhookReplies) :
         LET r == webhookReplies[k]
         IN /\ ~r.isEnabled => /\ ~r.reply.success
                               /\ "tradeId" \notin DOMAIN r.reply
                               /\ r.waited = 0
            /\ r.isEnabled => (r.reply.success <=> r.action # "WAIT")

\* a BUY rejected by the disabled bridge, a WAIT refused and a SELL
\* accepted by the enabled one
C26_Witness ==
    /\ \E k \in 1..Len(webhookReplies) :
         webhookReplies[k].action = "BUY" /\ ~webhookReplies[k].isEnabled
    /\ \E k \in 1..Len(webhookReplies) :
         /\ webhookReplies[k].action = "WAIT" /\ webhookReplies[k].isEnabled
         /\ webhookReplies[k].waited = 2000
    /\ \E k \in 1..Len(webhookReplies) :
         /\ webhookReplies[k].action = "SELL" /\ webhookReplies[k].isEnabled
         /\ webhookReplies[k].reply.success

\* C27: in every reachable account state the open positions have pairwise
\* distinct tickets and pairwise distinct ids.
C27_TicketsDistinct ==
    LET ps == accountState.positions
    IN \A i, j \in 1..Len(ps) :
         i # j => ps[i].ticket # ps[j].ticket /\ ps[i].id # ps[j].id

\* C28: every open position has lots > 0 and a numeric entryPrice,
\* stopLoss and takeProfit, whatever signal opened it, signals without
\* lotSizeCalculation, stopLoss or takeProfit1 included.
C28_PositionsNormalized ==
    \A k \in 1..Len(accountState.positions) :
       LET p == accountState.positions[k]
       IN /\ IsNum(p.lots) /\ p.lots.v > 0
          /\ IsNum(p.entryPrice)
          /\ IsNum(p.sl)
          /\ IsNum(p.tp)

\* C29: whenever the agent status is EXECUTING it is COOLDOWN at some
\* later time, by the delayed callback of the cycle alone: no other timer
\* and no other cycle has to run for it.
C29_ExecutingLeadsToCooldown ==
    [](agentStatus = "EXECUTING" => <>(agentStatus = "COOLDOWN"))

\* C30: a cycle invocation made while the agent status is EXECUTING is
\* skipped: no cycle is started, the chart is not switched, the status
\* stays EXECUTING and the periodic tick writes no log.
C30_GuardReadsCurrentStatus ==
    [][ (/\ agentStatus = "EXECUTING"
         /\ \/ Activate(MaxStarts, MaxToggles)
            \/ IntervalFires(MaxStarts)
            \/ ResumeFires(MaxStarts))
        => /\ cycles' = cycles
           /\ starts' = starts
           /\ chartTimeframe' = chartTimeframe
           /\ agentStatus' = "EXECUTING"
           /\ IntervalFires(MaxStarts) => agentLogs' = agentLogs ]_vars

\* C31: while the agent is not active the agent status is IDLE, also
\* when a cycle that was in flight at deactivation ends afterwards.
C31_InactiveIsIdle == ~isActive => agentStatus = "IDLE"

\* C32: the agent status enters ANALYZING only from SCANNING 1m,
\* SCANNING 1m only from SCANNING MTF, SCANNING MTF only from SCANNING HTF
\* and EXECUTING only from ANALYZING.
C32_StatusGraph ==
    [][ agentStatus' # agentStatus
        => /\ agentStatus' = "ANALYZING" => agentStatus = "SCANNING 1m"
           /\ agentStatus' = "SCANNING 1m" => agentStatus = "SCANNING MTF"
           /\ agentStatus' = "SCANNING MTF" => agentStatus = "SCANNING HTF"
           /\ agentStatus' = "EXECUTING" => agentStatus = "ANALYZING" ]_vars

\* the Oracle itself reported quota exhaustion: an API error with HTTP
\* code 429 in its text or with status RESOURCE_EXHAUSTED
QuotaSignalled(raw) == raw.type = "apiError" /\ (raw.has429 \/ raw.resourceExhausted)

\* C33: a cycle takes the backoff path (periodic timer cancelled, one-shot
\* resumption armed) only for an Oracle response that signalled quota
\* exhaustion; a capture failure and every other failure of the Oracle
\* call leave the timers alone.
C33_BackoffOnlyOnQuota ==
    [][ /\ \A i \in 1..Len(cycles), raw \in RawResponses :
             OracleRateLimitedWith(i, raw) => QuotaSignalled(raw)
        /\ \A i \in 1..Len(cycles) :
             (CaptureFails(i) \/ OracleFails(i)) => timers' = timers ]_vars

\* C34: every position of the account, and of every account state handed
\* to a listener, has status OPEN: a position that a tick marks CLOSED is
\* gone from the position list when that tick ends.
C34_OnlyOpenPositions ==
    /\ \A k \in 1..Len(accountState.positions) :
         accountState.positions[k].status = "OPEN"
    /\ \A d \in 1..Len(delivered) :
         \A k \in 1..Len(delivered[d].state.positions) :
            delivered[d].state.positions[k].status = "OPEN"

\* a tick closed one position by its stop or its target, kept another
\* one open, and handed the account to a listener
C34_Witness ==
    /\ tickCount > 0
    /\ closedLog # <<>>
    /\ closedLog[Len(closedLog)].reason \in {"SL", "TP"}
    /\ closedLog[Len(closedLog)].position.status = "CLOSED"
    /\ delivered # <<>>
    /\ delivered[1].state = accountState
    /\ accountState.positions # <<>>

\* the snapshot field a capture of this stage fills
StageSnapshot(c, stage) ==
    IF stage = "HTF" THEN c.htf ELSE IF stage = "MTF" THEN c.ltf ELSE c.vltf

\* C35: one capture is one timeframe switch at its start, at most one
\* retry wait (with its warning, and without touching the chart), and one
\* snapshot request that ends it: the snapshot is stored and the cycle
\* moves on, or there is none and the cycle fails with an ERROR entry.
C35_CaptureOnce ==
    [][ /\ waits' # waits
           => \E i \in 1..Len(cycles) :
                 /\ Capturing(i)
                 /\ ~cycles[i].retry
                 /\ cycles' = [cycles EXCEPT ![i].retry = TRUE]
                 /\ Head(agentLogs').type = "WARNING"
                 /\ chartTimeframe' = chartTimeframe
        /\ Len(cycles') = Len(cycles) + 1
           => /\ chartTimeframe' = "4h"
              /\ cycles'[Len(cycles')].stage = "HTF"
              /\ ~cycles'[Len(cycles')].retry
        /\ \A i \in 1..Len(cycles) :
             (Len(cycles') = Len(cycles) /\ cycles'[i].stage # cycles[i].stage)
             => /\ Capturing(i)
                /\ StageSnapshot(cycles'[i], cycles[i].stage).present
                /\ StageSnapshot(cycles'[i], cycles[i].stage).timeframe = chartTimeframe
                /\ ~cycles'[i].retry
                /\ cycles'[i].stage # "ORACLE"
                   => chartTimeframe' = StageTimeframe(cycles'[i].stage)
                /\ cycles'[i].stage = "ORACLE" => chartTimeframe' = chartTimeframe
        /\ (\E i \in 1..Len(cycles) : CaptureFails(i))
           <=> (agentLogs' # agentLogs /\ Head(agentLogs').type = "ERROR")
        /\ (\E i \in 1..Len(cycles) : CaptureFails(i))
           => chartTimeframe' = chartTimeframe /\ waits' = waits ]_vars

\* three retry waits were taken, the last by a capture of the 1m chart
\* that is still waiting, and an earlier capture has failed
C35_Witness ==
    /\ waits = CaptureWaitBound
    /\ \E i \in 1..Len(cycles) : cycles[i].stage = "SCALP" /\ cycles[i].retry
    /\ \E k \in 1..Len(agentLogs) : agentLogs[k].type = "ERROR"

\* C36: what a listener was handed stays as it was delivered: read again
\* after the next ledger call, the balance, equity, marginUsed, freeMargin
\* and positions it received, and those of the copy AnalysisView keeps,
\* are the delivered ones.
C36_DeliveredSnapshotImmutable ==
    [][\A d \in 1..Len(delivered) :
          /\ ReadReceived(delivered[d].state, accountState') = delivered[d].state
          /\ ReadViewCopy(delivered[d].state, accountState', tickCount' # tickCount)
                = delivered[d].state]_vars

\* the periodic timers that are armed, in the ref or leaked
PeriodicTimers(ts) == {k \in 1..Len(ts) : ts[k].kind = "interval"}

\* C37: at most one periodic cycle timer is armed.
C37_OnePeriodicTimer == Cardinality(PeriodicTimers(timers)) <= 1

\* firing this timer starts a cycle
StartsCycle(t) ==
    /\ PassesGuard(t.closure)
    /\ t.kind = "resume" => t.closure.isActive

RateLimitedBefore ==
    \E k \in 1..Len(agentLogs) : agentLogs[k] = LogEntry("Quota Limit Hit", "ERROR")

\* C38: while the agent is active and no rate-limit error has occurred,
\* a cycle is in flight or an armed timer will start one when it fires:
\* the agent is never left with every tick skipped.
C38_NeverStalls ==
    (isActive /\ ~RateLimitedBefore)
    => \/ cycles # <<>>
       \/ \E k \in 1..Len(timers) : StartsCycle(timers[k])

\* C39: a cycle that has called the Oracle passed it a 4h snapshot as
\* htf, a 15m snapshot as ltf and a 1m snapshot as vltf.
C39_OracleGetsThreeTimeframes ==
    \A i \in 1..Len(cycles) :
       cycles[i].stage = "ORACLE"
       => /\ cycles[i].htf.timeframe = "4h"
          /\ cycles[i].ltf.timeframe = "15m"
          /\ cycles[i].vltf.timeframe = "1m"

\* stopLoss = 0 and takeProfit = 0 at a positive entry price
DefaultStops(p) ==
    /\ Eq(p.sl, N(0))
    /\ Eq(p.tp, N(0))
    /\ IsNum(p.entryPrice) /\ p.entryPrice.v > 0

\* C40: a tick removes every open position with stopLoss = 0 and
\* takeProfit = 0 at a positive entry price from the position list, a BUY
\* with reason TP and a SELL with reason SL, and adds the pnl of that tick
\* to balance; so no such position outlives its first tick.
C40_DefaultStopsCloseAtOnce ==
    [][(tickCount' = tickCount + 1)
        => /\ \A i \in 1..Len(accountState.positions) :
                 LET p == accountState.positions[i]
                 IN DefaultStops(p)
                    => /\ \A j \in 1..Len(accountState'.positions) :
                             accountState'.positions[j].id # p.id
                       /\ \E k \in 1..Len(NewlyClosed) :
                             /\ NewlyClosed[k].id = p.id
                             /\ NewlyClosed[k].closeReason =
                                   IF p.type = "BUY" THEN "TP" ELSE "SL"
                             /\ NewlyClosed[k].pnl = tickPosition(p, Sub(NewlyClosed[k].currentPrice, p.currentPrice)).pnl
           /\ accountState'.balance = FoldBalance(accountState.balance, NewlyClosed)]_vars

\* one tick has closed a BUY as TP and a SELL as SL, both opened with the
\* default stops, one of them with a pnl other than 0, and a position with
\* real stops is still open
C40_Witness ==
    /\ tickCount = 1
    /\ \E k \in 1..Len(closedLog) :
         /\ closedLog[k].position.type = "BUY" /\ closedLog[k].reason = "TP"
         /\ DefaultStops(closedLog[k].position)
         /\ IsNum(closedLog[k].pnl) /\ closedLog[k].pnl.v # 0
    /\ \E k \in 1..Len(closedLog) :
         /\ closedLog[k].position.type = "SELL" /\ closedLog[k].reason = "SL"
         /\ DefaultStops(closedLog[k].position)

====
